---- MODULE Spec2Model ----
(***************************************************************************)
(* Model of src/lib/database.ts: the SQLStatement builder, the two dialect *)
(* resolvers, the Database query operations and the DatabaseTable helpers. *)
(*                                                                         *)
(* A JavaScript string is a sequence of one-character strings, so that     *)
(* endsWith, startsWith, slice and toUpperCase are computed as the code    *)
(* computes them; the backtick character, which the TLA+ lexer does not    *)
(* accept inside a string, is written "BACKTICK".  A BasicSQLValue is a    *)
(* tagged record.                                                          *)
(***************************************************************************)
EXTENDS Integers, Sequences, FiniteSets, TLC

VARIABLES
    type,            \* Database.type: "mysql" or "pg"
    primaryKeyName,  \* DatabaseTable.primaryKeyName (a value, possibly null)
    stmt,            \* the SQLStatement being built: [sql, values]
    threw,           \* TRUE when the last composition threw its Error
    last,            \* the last operation and its arguments
    out,             \* the last [query, values] pair produced by _resolveSQL
    phase,           \* "idle", "pending" (a promise is in flight) or "done"
    call,            \* the arguments the execution primitive was called with
    ncalls,          \* number of calls made to the driver's query
    outcome,         \* what the caller of the last operation received
    nops             \* number of operations performed so far

vars == <<type, primaryKeyName, stmt, threw, last, out, phase, call, ncalls,
          outcome, nops>>

----------------------------------------------------------------------------
(* Bounds of the model *)

MaxOps == 2        \* composition operations applied to one statement
MaxCalls == 2      \* table / connection operations issued
MaxInterp == 1     \* interpolations of a template given to the connection

----------------------------------------------------------------------------
(* JavaScript strings *)

LowerChars == <<"a","b","c","d","e","f","g","h","i","j","k","l","m","n","o","p","q","r","s","t","u","v","w","x","y","z">>
UpperChars == <<"A","B","C","D","E","F","G","H","I","J","K","L","M","N","O","P","Q","R","S","T","U","V","W","X","Y","Z">>

toUpperCaseChar(c) ==
    IF \E i \in 1..Len(LowerChars) : LowerChars[i] = c
    THEN UpperChars[CHOOSE i \in 1..Len(LowerChars) : LowerChars[i] = c]
    ELSE c

toUpperCase(s) == [i \in 1..Len(s) |-> toUpperCaseChar(s[i])]

\* s.slice(0, -n)
sliceEnd(s, n) == IF Len(s) <= n THEN <<>> ELSE SubSeq(s, 1, Len(s) - n)

\* s.slice(-1)
sliceLast(s) == IF Len(s) = 0 THEN <<>> ELSE <<s[Len(s)]>>

\* s.slice(1)
sliceFirst(s) == IF Len(s) <= 1 THEN <<>> ELSE SubSeq(s, 2, Len(s))

endsWith(s, suffix) ==
    /\ Len(s) >= Len(suffix)
    /\ SubSeq(s, Len(s) - Len(suffix) + 1, Len(s)) = suffix

startsWith(s, prefix) ==
    /\ Len(s) >= Len(prefix)
    /\ SubSeq(s, 1, Len(prefix)) = prefix

\* haystack.includes(needle)
includes(haystack, needle) ==
    \E i \in 1..(Len(haystack) + 1) :
        /\ i + Len(needle) - 1 <= Len(haystack)
        /\ SubSeq(haystack, i, i + Len(needle) - 1) = needle

\* id.replace(/q/g, qq)
RECURSIVE replaceAll(_, _, _)
replaceAll(s, q, qq) ==
    IF s = <<>> THEN <<>>
    ELSE (IF Head(s) = q THEN qq ELSE <<Head(s)>>) \o replaceAll(Tail(s), q, qq)

----------------------------------------------------------------------------
(* BasicSQLValue = string | number | null, and the other SQLValue shapes *)

Str(s) == [t |-> "string", s |-> s, n |-> 0]
Num(n) == [t |-> "number", s |-> <<>>, n |-> n]
Null   == [t |-> "null", s |-> <<>>, n |-> 0]

Scalar(v)      == [k |-> "scalar", v |-> v]
Undefined      == [k |-> "undefined"]
Array(items)   == [k |-> "array", items |-> items]
Object(cols, vals) == [k |-> "object", cols |-> cols, vals |-> vals]
Statement(sql, values) == [k |-> "sql", sql |-> sql, values |-> values]

Digits == <<"0","1","2","3","4","5","6","7","8","9">>

RECURSIVE numberToString(_)
numberToString(n) ==
    IF n < 0 THEN <<"-">> \o numberToString(0 - n)
    ELSE IF n < 10 THEN <<Digits[n + 1]>>
    ELSE numberToString(n \div 10) \o <<Digits[(n % 10) + 1]>>

\* `${value}` for a BasicSQLValue
templateString(v) ==
    CASE v.t = "string" -> v.s
      [] v.t = "number" -> numberToString(v.n)
      [] v.t = "null"   -> <<"n","u","l","l">>

----------------------------------------------------------------------------
(* SQLStatement *)

isSQL(value) == value.k = "sql"

\* The builder state is [sql, values, threw]; once threw is TRUE the
\* exception is propagating and no later statement of the method runs.
appendRaw(this, str) ==
    IF this.threw THEN this
    ELSE [this EXCEPT !.sql[Len(this.sql)] = @ \o str]

lastSql(this) == this.sql[Len(this.sql)]

setLastSql(this, str) ==
    IF this.threw THEN this
    ELSE [this EXCEPT !.sql[Len(this.sql)] = str]

RECURSIVE append(_, _)
RECURSIVE appendEach(_, _, _)
RECURSIVE appendAssignments(_, _, _)

\* for (const x of items) this.append(x).appendRaw(sep)
appendEach(this, items, sep) ==
    IF items = <<>> THEN this
    ELSE appendEach(appendRaw(append(this, Head(items)), sep), Tail(items), sep)

\* for (const col in value) { this.append(col).appendRaw('" = ');
\*                            this.append(value[col]).appendRaw(', "'); }
appendAssignments(this, cols, vals) ==
    IF cols = <<>> THEN this
    ELSE appendAssignments(
            appendRaw(append(appendRaw(append(this, Scalar(Str(Head(cols)))),
                                       <<"\""," ","="," ">>),
                             Head(vals)),
                      <<","," ","\"">>),
            Tail(cols), Tail(vals))

\* mutant: the nested statement's first fragment is merged and kept as well
appendStatement_keepFirst(this, value) ==
    IF Len(value.sql) = 0 THEN this
    ELSE LET t == appendRaw(this, value.sql[1])
         IN  [t EXCEPT !.sql = t.sql \o value.sql,
                       !.values = t.values \o value.values]

appendStatement(this, value) ==
    IF Len(value.sql) = 0 THEN this
    ELSE LET t == appendRaw(this, value.sql[1])
         IN  [t EXCEPT !.sql = t.sql \o Tail(value.sql),
                       !.values = t.values \o value.values]

appendScalar(this, v) ==
    [this EXCEPT !.values = Append(this.values, v),
                 !.sql = Append(this.sql, <<>>)]

\* mutant: an array of statements is joined with ", " like a value list
appendArray_separated(this, items) ==
    IF Len(items) = 0
    THEN this
    ELSE IF ~isSQL(items[1]) /\ includes(<<"\"","BACKTICK">>, sliceLast(lastSql(this)))
    THEN LET quoteChar == sliceLast(lastSql(this))
             t == appendEach(this, items, quoteChar \o <<","," ">> \o quoteChar)
         IN  setLastSql(t, sliceEnd(lastSql(t), 4))
    ELSE LET t == appendEach(this, items, <<","," ">>)
         IN  setLastSql(t, sliceEnd(lastSql(t), 2))

appendArray(this, items) ==
    IF Len(items) = 0 \/ isSQL(items[1])
    THEN appendEach(this, items, <<>>)
    ELSE IF includes(<<"\"","BACKTICK">>, sliceLast(lastSql(this)))
    THEN LET quoteChar == sliceLast(lastSql(this))
             t == appendEach(this, items, quoteChar \o <<","," ">> \o quoteChar)
         IN  setLastSql(t, sliceEnd(lastSql(t), 4))
    ELSE LET t == appendEach(this, items, <<","," ">>)
         IN  setLastSql(t, sliceEnd(lastSql(t), 2))

\* mutant: an object in an unrecognized position is skipped without an error
appendObject_silent(this, cols, vals) ==
    IF endsWith(lastSql(this), <<"(">>)
    THEN LET t1 == appendEach(appendRaw(this, <<"\"">>),
                              [i \in 1..Len(cols) |-> Scalar(Str(cols[i]))],
                              <<"\"",","," ","\"">>)
             t2 == setLastSql(t1, sliceEnd(lastSql(t1), 4) \o <<"\"",")"," ","V","A","L","U","E","S"," ","(">>)
             t3 == appendEach(t2, vals, <<","," ">>)
         IN  setLastSql(t3, sliceEnd(lastSql(t3), 2))
    ELSE IF endsWith(toUpperCase(lastSql(this)), <<" ","S","E","T"," ">>)
    THEN LET t == appendAssignments(appendRaw(this, <<"\"">>), cols, vals)
         IN  setLastSql(t, sliceEnd(lastSql(t), 3))
    ELSE this

appendObject(this, cols, vals) ==
    IF endsWith(lastSql(this), <<"(">>)
    THEN LET t1 == appendEach(appendRaw(this, <<"\"">>),
                              [i \in 1..Len(cols) |-> Scalar(Str(cols[i]))],
                              <<"\"",","," ","\"">>)
             t2 == setLastSql(t1, sliceEnd(lastSql(t1), 4) \o <<"\"",")"," ","V","A","L","U","E","S"," ","(">>)
             t3 == appendEach(t2, vals, <<","," ">>)
         IN  setLastSql(t3, sliceEnd(lastSql(t3), 2))
    ELSE IF endsWith(toUpperCase(lastSql(this)), <<" ","S","E","T"," ">>)
    THEN LET t == appendAssignments(appendRaw(this, <<"\"">>), cols, vals)
         IN  setLastSql(t, sliceEnd(lastSql(t), 3))
    ELSE [this EXCEPT !.threw = TRUE]

append(this, value) ==
    IF this.threw THEN this
    ELSE CASE isSQL(value)            -> appendStatement(this, value)
           [] value.k = "scalar"      -> appendScalar(this, value.v)
           [] value.k = "undefined"   -> this
           [] value.k = "array"       -> appendArray(this, value.items)
           [] value.k = "object"      -> appendObject(this, value.cols, value.vals)

\* for (let i = 0; i < strings.length - 1; i++)
\*     this.append(values[i]).appendRaw(strings[i + 1]);
RECURSIVE constructorLoop(_, _, _, _)
constructorLoop(this, strings, values, i) ==
    IF i > Len(strings) - 1 THEN this
    ELSE constructorLoop(appendRaw(append(this, values[i]), strings[i + 1]),
                         strings, values, i + 1)

SQLStatement(strings, values) ==
    constructorLoop([sql |-> <<strings[1]>>, values |-> <<>>, threw |-> FALSE],
                    strings, values, 1)

\* the SQL tag function; a thrown composition yields no statement
SQL(strings, values) ==
    LET s == SQLStatement(strings, values)
    IN  Statement(s.sql, s.values)

----------------------------------------------------------------------------
(* Identifier escaping and the two dialect resolvers *)

mysql_escapeId(id) == <<"BACKTICK">> \o replaceAll(id, "BACKTICK", <<"BACKTICK","BACKTICK">>) \o <<"BACKTICK">>

pg_escapeIdentifier(id) == <<"\"">> \o replaceAll(id, "\"", <<"\"","\"">>) \o <<"\"">>

MySQLDatabase_escapeId(id) == mysql_escapeId(id)

PGDatabase_escapeId(id) == pg_escapeIdentifier(id)

\* query.sql[i + 1].startsWith('`') || query.sql[i + 1].startsWith('"')
startsWithQuote(s) == startsWith(s, <<"BACKTICK">>) \/ startsWith(s, <<"\"">>)

\* mutant: the quote is looked for before the interpolation, not after it
MySQLDatabase_resolveStep_preceding(acc, value, next) ==
    IF endsWith(acc.sql, <<"BACKTICK">>) \/ endsWith(acc.sql, <<"\"">>)
    THEN [acc EXCEPT !.sql = sliceEnd(acc.sql, 1)
                              \o MySQLDatabase_escapeId(templateString(value))
                              \o sliceFirst(next)]
    ELSE [sql |-> acc.sql \o <<"?">> \o next, values |-> Append(acc.values, value)]

\* one iteration of the loop of MySQLDatabase._resolveSQL; acc = [sql, values]
MySQLDatabase_resolveStep(acc, value, next) ==
    IF startsWithQuote(next)
    THEN [acc EXCEPT !.sql = sliceEnd(acc.sql, 1)
                              \o MySQLDatabase_escapeId(templateString(value))
                              \o sliceFirst(next)]
    ELSE [sql |-> acc.sql \o <<"?">> \o next, values |-> Append(acc.values, value)]

RECURSIVE MySQLDatabase_resolveLoop(_, _, _)
MySQLDatabase_resolveLoop(acc, query, i) ==
    IF i > Len(query.values) THEN acc
    ELSE MySQLDatabase_resolveLoop(
            MySQLDatabase_resolveStep(acc, query.values[i], query.sql[i + 1]),
            query, i + 1)

MySQLDatabase_resolveSQL(query) ==
    MySQLDatabase_resolveLoop([sql |-> query.sql[1], values |-> <<>>], query, 1)

\* mutant: paramCount is not incremented
PGDatabase_resolveStep_noIncrement(acc, value, next) ==
    IF startsWithQuote(next)
    THEN [acc EXCEPT !.sql = sliceEnd(acc.sql, 1)
                              \o PGDatabase_escapeId(templateString(value))
                              \o sliceFirst(next)]
    ELSE [sql |-> acc.sql \o <<"$">> \o numberToString(acc.paramCount + 1) \o next,
          values |-> Append(acc.values, value),
          paramCount |-> acc.paramCount]

\* one iteration of the loop of PGDatabase._resolveSQL;
\* acc = [sql, values, paramCount]
PGDatabase_resolveStep(acc, value, next) ==
    IF startsWithQuote(next)
    THEN [acc EXCEPT !.sql = sliceEnd(acc.sql, 1)
                              \o PGDatabase_escapeId(templateString(value))
                              \o sliceFirst(next)]
    ELSE [sql |-> acc.sql \o <<"$">> \o numberToString(acc.paramCount + 1) \o next,
          values |-> Append(acc.values, value),
          paramCount |-> acc.paramCount + 1]

RECURSIVE PGDatabase_resolveLoop(_, _, _)
PGDatabase_resolveLoop(acc, query, i) ==
    IF i > Len(query.values) THEN acc
    ELSE PGDatabase_resolveLoop(
            PGDatabase_resolveStep(acc, query.values[i], query.sql[i + 1]),
            query, i + 1)

PGDatabase_resolveSQL(query) ==
    LET r == PGDatabase_resolveLoop(
                [sql |-> query.sql[1], values |-> <<>>, paramCount |-> 0],
                query, 1)
    IN  [sql |-> r.sql, values |-> r.values]

\* this._resolveSQL(query), dispatched on the class of the database
resolveSQL(dbtype, query) ==
    IF dbtype = "pg" THEN PGDatabase_resolveSQL(query)
    ELSE MySQLDatabase_resolveSQL(query)

----------------------------------------------------------------------------
(* Inputs of the composition operations *)

Literals == { <<>>, <<"\"">>, <<"BACKTICK">>, <<"(">>, <<" ","s","e","t"," ">>, <<" ","S","E","T"," ">>, <<"O","F","F","S","E","T"," ">> }

StmtA == Statement(<<<<"x"," ","="," ">>, <<>>>>, <<Num(5)>>)       \* SQL`x = ${5}`
StmtB == Statement(<<<<"\"">>, <<"\"">>>>, <<Str(<<"b">>)>>)       \* SQL`"${"b"}"`

\* interpolations of a template
TemplateValues ==
    { Scalar(Str(<<"a","\"","BACKTICK">>)), Scalar(Num(5)), Undefined,
      Object(<<<<"a">>>>, <<Scalar(Num(5))>>) }

\* arguments of append()
AppendValues ==
    TemplateValues \cup
    { Scalar(Null),
      Array(<<>>), Array(<<Scalar(Str(<<"a">>)), Scalar(Null)>>),
      Array(<<StmtA, StmtB>>),
      Object(<<<<"a">>, <<"b","\"">>>>, <<Scalar(Str(<<"s">>)), StmtA>>),
      StmtA, StmtB }

\* the templates with n interpolations
Templates(n) ==
    { [strings |-> s, values |-> v] :
        s \in [1..(n + 1) -> Literals], v \in [1..n -> TemplateValues] }

EmptyStatement == [sql |-> <<<<>>>>, values |-> <<>>]
NoOut == [type |-> "none", sql |-> <<>>, values |-> <<>>]
NoCall == [fn |-> "none", sql |-> <<>>, values |-> <<>>]
NoOutcome == [status |-> "none"]

----------------------------------------------------------------------------
(* The statement builder as a state machine *)

InitStmt ==
    /\ type = "none"
    /\ primaryKeyName = Null
    /\ stmt = EmptyStatement
    /\ threw = FALSE
    /\ last = [op |-> "init"]
    /\ out = NoOut
    /\ phase = "idle"
    /\ call = NoCall
    /\ ncalls = 0
    /\ outcome = NoOutcome
    /\ nops = 0

dbUnchanged == UNCHANGED <<type, primaryKeyName, phase, call, ncalls, outcome>>

\* new SQLStatement(strings, values): the statement is constructed once
New(strings, values) ==
    /\ last.op = "init"
    /\ Len(values) <= MaxOps
    /\ LET r == SQLStatement(strings, values)
       IN  /\ stmt' = [sql |-> r.sql, values |-> r.values]
           /\ threw' = r.threw
    /\ last' = [op |-> "new", strings |-> strings, values |-> values]
    /\ out' = NoOut
    /\ nops' = Len(values)
    /\ dbUnchanged

\* statement.append(value)
DoAppend(value) ==
    /\ ~threw
    /\ nops < MaxOps
    /\ LET r == append([sql |-> stmt.sql, values |-> stmt.values,
                        threw |-> FALSE], value)
       IN  /\ stmt' = [sql |-> r.sql, values |-> r.values]
           /\ threw' = r.threw
    /\ last' = [op |-> "append", before |-> stmt, value |-> value]
    /\ out' = NoOut
    /\ nops' = nops + 1
    /\ dbUnchanged

\* statement.appendRaw(str)
DoAppendRaw(str) ==
    /\ ~threw
    /\ nops < MaxOps
    /\ LET r == appendRaw([sql |-> stmt.sql, values |-> stmt.values,
                           threw |-> FALSE], str)
       IN  stmt' = [sql |-> r.sql, values |-> r.values]
    /\ threw' = FALSE
    /\ last' = [op |-> "appendRaw", before |-> stmt, str |-> str]
    /\ out' = NoOut
    /\ nops' = nops + 1
    /\ dbUnchanged

\* database._resolveSQL(statement) on a MySQLDatabase or a PGDatabase
Resolve(dbtype) ==
    /\ ~threw
    /\ out = NoOut
    /\ LET r == resolveSQL(dbtype, stmt)
       IN  out' = [type |-> dbtype, sql |-> r.sql, values |-> r.values]
    /\ UNCHANGED <<stmt, threw, last, nops>>
    /\ dbUnchanged

NextStmt ==
    \/ /\ last.op = "init"
       /\ \E n \in 0..MaxOps : \E t \in Templates(n) : New(t.strings, t.values)
    \/ /\ ~threw /\ nops < MaxOps
       /\ \E value \in AppendValues : DoAppend(value)
    \/ /\ ~threw /\ nops < MaxOps
       /\ \E str \in Literals : DoAppendRaw(str)
    \/ \E dbtype \in {"mysql", "pg"} : Resolve(dbtype)

SpecStmt == InitStmt /\ [][NextStmt]_vars

----------------------------------------------------------------------------
(* Errors, and what the driver hands back *)

NoError == [k |-> "none", message |-> <<>>, hasCode |-> FALSE, code |-> <<>>]

\* new Error(message): an Error object has no code property
Error(message) ==
    [k |-> "Error", message |-> message, hasCode |-> FALSE, code |-> <<>>]

\* the error object of the driver: a message and the backend's code
DriverError(message, code) ==
    [k |-> "DriverError", message |-> message, hasCode |-> TRUE, code |-> code]

compositionError(fragment) ==
    Error(<<"O","b","j","e","c","t","s"," ","c","a","n"," ","o","n","l","y"," ","a","p","p","e","a","r"," ","i","n"," ","(","o","b","j",")"," ","o","r"," ","a","f","t","e","r"," ","S","E","T",";"," ","u","n","r","e","c","o","g","n","i","z","e","d",":"," ">>
          \o fragment \o <<"[","o","b","j","]">>)

configurationError(method) ==
    Error(<<"C","a","n","n","o","t"," ">> \o method \o <<"(",")"," ","w","i","t","h","o","u","t"," ","a"," ","s","i","n","g","l","e","-","c","o","l","u","m","n"," ","p","r","i","m","a","r","y"," ","k","e","y">>)

\* the errors the pool's query can fail with, per backend
DriverErrors(dbtype) ==
    IF dbtype = "pg"
    THEN { DriverError(<<"d","u","p","l","i","c","a","t","e"," ","k","e","y"," ","v","a","l","u","e">>, <<"2","3","5","0","5">>),
           DriverError(<<"r","e","l","a","t","i","o","n"," ","d","o","e","s"," ","n","o","t"," ","e","x","i","s","t">>, <<"4","2","P","0","1">>) }
    ELSE { DriverError(<<"D","u","p","l","i","c","a","t","e"," ","e","n","t","r","y">>, <<"E","R","_","D","U","P","_","E","N","T","R","Y">>),
           DriverError(<<"T","a","b","l","e"," ","d","o","e","s"," ","n","o","t"," ","e","x","i","s","t">>, <<"E","R","_","N","O","_","S","U","C","H","_","T","A","B","L","E">>) }

\* what the pool's query can succeed with: rows (mysql: or an OkPacket)
DriverResults(dbtype) ==
    { [rows |-> <<>>, rowCount |-> 0, isArray |-> TRUE],
      [rows |-> <<"row1", "row2">>, rowCount |-> 2, isArray |-> TRUE] }
    \cup (IF dbtype = "pg" THEN {}
          ELSE { [rows |-> <<>>, rowCount |-> 1, isArray |-> FALSE] })

UndefinedValue == [k |-> "undefined", rows |-> <<>>, n |-> 0]

\* `${values}`: Array.prototype.toString joins with "," and prints null as ""
RECURSIVE valuesToString(_)
valuesToString(values) ==
    IF values = <<>> THEN <<>>
    ELSE (IF Head(values).t = "null" THEN <<>> ELSE templateString(Head(values)))
         \o (IF Len(values) > 1 THEN <<",">> ELSE <<>>)
         \o valuesToString(Tail(values))

\* MySQLDatabase._query: the callback of connection.query
MySQLDatabase_query_reject(query, values, e) ==
    Error(e.message \o <<" ","(">> \o query \o <<")"," ","(">> \o valuesToString(values)
          \o <<")"," ","[">> \o e.code \o <<"]">>)

MySQLDatabase_query_resolve(results) ==
    IF results.isArray
    THEN [k |-> "rows", rows |-> results.rows, n |-> 0]
    ELSE [k |-> "OkPacket", rows |-> <<>>, n |-> results.rowCount]

\* PGDatabase._query and _queryExec: connection.query(...).then(...)
PGDatabase_query_reject(query, values, e) == e

PGDatabase_query_resolve(res) == [k |-> "rows", rows |-> res.rows, n |-> 0]

PGDatabase_queryExec_resolve(res) ==
    [k |-> "affectedRows", rows |-> <<>>, n |-> res.rowCount]

\* the rejection of this._query / this._queryExec when the driver fails with e
primitiveReject(dbtype, query, values, e) ==
    IF dbtype = "pg" THEN PGDatabase_query_reject(query, values, e)
    ELSE MySQLDatabase_query_reject(query, values, e)

\* the value this._query / this._queryExec resolves with
primitiveResolve(dbtype, fn, res) ==
    IF dbtype = "pg"
    THEN (IF fn = "_queryExec" THEN PGDatabase_queryExec_resolve(res)
          ELSE PGDatabase_query_resolve(res))
    ELSE MySQLDatabase_query_resolve(res)

----------------------------------------------------------------------------
(* Database.query / queryOne / queryExec and the DatabaseTable helpers.
   Each yields what the call does before it returns: it throws err, or it
   has called the execution primitive fn with (sql, values). *)

Thrown(err, r) ==
    [thrown |-> TRUE, err |-> err, stmt |-> [sql |-> r.sql, values |-> r.values],
     composition |-> r.threw, fn |-> "none", sql |-> <<>>, values |-> <<>>]

Called(dbtype, fn, r) ==
    LET q == resolveSQL(dbtype, r)
    IN  [thrown |-> FALSE, err |-> NoError,
         stmt |-> [sql |-> r.sql, values |-> r.values], composition |-> FALSE,
         fn |-> fn, sql |-> q.sql, values |-> q.values]

\* r is the outcome of building the statement the operation is given
Database_query(dbtype, r) ==
    IF r.threw THEN Thrown(compositionError(lastSql(r)), r)
    ELSE Called(dbtype, "_query", r)

Database_queryOne(dbtype, r) == Database_query(dbtype, r)

Database_queryExec(dbtype, r) ==
    IF r.threw THEN Thrown(compositionError(lastSql(r)), r)
    ELSE Called(dbtype, "_queryExec", r)

\* DatabaseTable.name = db.prefix + name, with no prefix
name == <<"u","s","e","r","s">>

\* an interpolated `new SQLStatement(strings, rest)`: the value it gives, and
\* a throw inside it aborts the enclosing template before anything is built
nestedValue(r) == Statement(r.sql, r.values)

DatabaseTable_selectOne(dbtype, entries, clause) ==
    IF clause.threw THEN Thrown(compositionError(lastSql(clause)), clause)
    ELSE Database_queryOne(dbtype,
            SQLStatement(<<<<"S","E","L","E","C","T"," ">>, <<" ","F","R","O","M"," ","\"">>, <<"\""," ">>, <<" ","L","I","M","I","T"," ","1">>>>,
                         <<entries, Scalar(Str(name)), nestedValue(clause)>>))

DatabaseTable_updateAll(dbtype, partialRow, clause) ==
    IF clause.threw THEN Thrown(compositionError(lastSql(clause)), clause)
    ELSE Database_queryExec(dbtype,
            SQLStatement(<<<<"U","P","D","A","T","E"," ","\"">>, <<"\""," ","S","E","T"," ">>, <<" ">>, <<>>>>,
                         <<Scalar(Str(name)), partialRow, nestedValue(clause)>>))

DatabaseTable_deleteAll(dbtype, clause) ==
    IF clause.threw THEN Thrown(compositionError(lastSql(clause)), clause)
    ELSE Database_queryExec(dbtype,
            SQLStatement(<<<<"D","E","L","E","T","E"," ","F","R","O","M"," ","\"">>, <<"\""," ">>, <<>>>>,
                         <<Scalar(Str(name)), nestedValue(clause)>>))

\* mutant: the table name is interpolated outside quotes
DatabaseTable_insert_unquoted(dbtype, partialRow, where) ==
    Database_queryExec(dbtype,
        SQLStatement(<<<<"I","N","S","E","R","T"," ","I","N","T","O"," ">>, <<" ","(">>, <<")"," ">>, <<>>>>,
                     <<Scalar(Str(name)), partialRow, where>>))

DatabaseTable_insert(dbtype, partialRow, where) ==
    Database_queryExec(dbtype,
        SQLStatement(<<<<"I","N","S","E","R","T"," ","I","N","T","O"," ","\"">>, <<"\""," ","(">>, <<")"," ">>, <<>>>>,
                     <<Scalar(Str(name)), partialRow, where>>))

DatabaseTable_upsert(dbtype, pk, partialRow, partialUpdate, where) ==
    IF dbtype = "pg"
    THEN Database_queryExec(dbtype,
            SQLStatement(<<<<"I","N","S","E","R","T"," ","I","N","T","O"," ","\"">>, <<"\""," ","(">>, <<")"," ","O","N"," ","C","O","N","F","L","I","C","T"," ","(">>,
                           <<")"," ","D","O"," ","U","P","D","A","T","E"," ","S","E","T"," ">>, <<" ">>, <<>>>>,
                         <<Scalar(Str(name)), partialRow, Scalar(pk),
                           partialUpdate, where>>))
    ELSE Database_queryExec(dbtype,
            SQLStatement(<<<<"I","N","S","E","R","T"," ","I","N","T","O"," ","\"">>, <<"\""," ","(">>,
                           <<")"," ","O","N"," ","D","U","P","L","I","C","A","T","E"," ","K","E","Y"," ","U","P","D","A","T","E"," ">>, <<" ">>, <<>>>>,
                         <<Scalar(Str(name)), partialRow, partialUpdate, where>>))

\* !this.primaryKeyName
falsy(v) ==
    \/ v.t = "null"
    \/ v.t = "string" /\ v.s = <<>>
    \/ v.t = "number" /\ v.n = 0

keyClause(pk, primaryKey) ==
    SQLStatement(<<<<"W","H","E","R","E"," ","\"">>, <<"\""," ","="," ">>, <<>>>>, <<Scalar(pk), Scalar(primaryKey)>>)

DatabaseTable_get(dbtype, pk, primaryKey) ==
    IF falsy(pk) THEN Thrown(configurationError(<<"g","e","t">>), EmptyStatement @@ [threw |-> FALSE])
    ELSE DatabaseTable_selectOne(dbtype, Statement(<<<<"*">>>>, <<>>),
                                 keyClause(pk, primaryKey))

\* mutant: delete() goes on without a primary key
DatabaseTable_delete_unchecked(dbtype, pk, primaryKey) ==
    DatabaseTable_deleteAll(dbtype, keyClause(pk, primaryKey))

DatabaseTable_delete(dbtype, pk, primaryKey) ==
    IF falsy(pk) THEN Thrown(configurationError(<<"d","e","l","e","t","e">>), EmptyStatement @@ [threw |-> FALSE])
    ELSE DatabaseTable_deleteAll(dbtype, keyClause(pk, primaryKey))

DatabaseTable_update(dbtype, pk, primaryKey, data) ==
    IF falsy(pk) THEN Thrown(configurationError(<<"u","p","d","a","t","e">>), EmptyStatement @@ [threw |-> FALSE])
    ELSE DatabaseTable_updateAll(dbtype, data, keyClause(pk, primaryKey))

\* what the promise of an operation settles to once the primitive has
\* settled; settled = [failed, err, value]
queryOne_then(res) ==
    IF res.k = "rows"
    THEN (IF Len(res.rows) = 0 THEN UndefinedValue
          ELSE [k |-> "row", rows |-> <<res.rows[1]>>, n |-> 0])
    ELSE res

Rejected(err) == [status |-> "rejected", value |-> UndefinedValue, err |-> err]
Fulfilled(value) == [status |-> "resolved", value |-> value, err |-> NoError]
ThrownOutcome(err) == [status |-> "thrown", value |-> UndefinedValue, err |-> err]

\* catch (err) { if (err.code === 'ER_DUP_ENTRY') return undefined; throw err; }
DatabaseTable_tryInsert_catch(err) ==
    IF err.hasCode /\ err.code = <<"E","R","_","D","U","P","_","E","N","T","R","Y">>
    THEN Fulfilled(UndefinedValue)
    ELSE Rejected(err)

settle(op, settled) ==
    CASE op \in {"queryOne", "get"} ->
            IF settled.failed THEN Rejected(settled.err)
            ELSE Fulfilled(queryOne_then(settled.value))
      [] op = "tryInsert" ->
            IF settled.failed THEN DatabaseTable_tryInsert_catch(settled.err)
            ELSE Fulfilled(settled.value)
      [] OTHER ->
            IF settled.failed THEN Rejected(settled.err)
            ELSE Fulfilled(settled.value)

----------------------------------------------------------------------------
(* The connection and a table as a state machine *)

Rows ==
    { Object(<<<<"n","a","m","e">>, <<"a","g","e">>>>, <<Scalar(Str(<<"x">>)), Scalar(Num(5))>>),
      Object(<<<<"a","\"","BACKTICK">>>>, <<Scalar(Null)>>),
      Object(<<<<"n">>>>, <<StmtA>>),
      Object(<<>>, <<>>) }

Wheres == { Undefined, Statement(<<<<"W","H","E","R","E"," ","x"," ","="," ">>, <<>>>>, <<Num(5)>>) }

Keys == { Num(42), Str(<<"k">>), Null }

PrimaryKeyNames == { Null, Str(<<"i","d">>) }

Init ==
    /\ type \in {"mysql", "pg"}
    /\ primaryKeyName \in PrimaryKeyNames
    /\ stmt = EmptyStatement
    /\ threw = FALSE
    /\ last = [op |-> "init"]
    /\ out = NoOut
    /\ phase = "idle"
    /\ call = NoCall
    /\ ncalls = 0
    /\ outcome = NoOutcome
    /\ nops = 0

\* no operation is in flight and the caller may issue one
CanStart == phase = "idle" /\ nops < MaxCalls

\* an operation is called with arguments args; launch is what it does
\* before it returns
Start(op, args, launch) ==
    /\ CanStart
    /\ nops' = nops + 1
    /\ last' = [op |-> op, args |-> args, ncallsBefore |-> ncalls]
    /\ stmt' = launch.stmt
    /\ threw' = launch.composition
    /\ IF launch.thrown
       THEN /\ phase' = "done"
            \* an async function turns the throw into a rejected promise
            /\ outcome' = IF op = "tryInsert"
                          THEN DatabaseTable_tryInsert_catch(launch.err)
                          ELSE ThrownOutcome(launch.err)
            /\ out' = NoOut
            /\ call' = NoCall
            /\ ncalls' = ncalls
       ELSE /\ phase' = "pending"
            /\ outcome' = NoOutcome
            /\ out' = [type |-> type, sql |-> launch.sql, values |-> launch.values]
            /\ call' = [fn |-> launch.fn, sql |-> launch.sql, values |-> launch.values]
            /\ ncalls' = ncalls + 1
    /\ UNCHANGED <<type, primaryKeyName>>

\* db.query()`...`, db.queryOne()`...`, db.queryExec()`...`
QueryTag(op, t) ==
    LET r == SQLStatement(t.strings, t.values)
    IN  Start(op, t,
              CASE op = "query" -> Database_query(type, r)
                [] op = "queryOne" -> Database_queryOne(type, r)
                [] op = "queryExec" -> Database_queryExec(type, r))

\* table.deleteAll()`...`
DeleteAll(t) ==
    Start("deleteAll", t,
          DatabaseTable_deleteAll(type, SQLStatement(t.strings, t.values)))

Insert(row, where) ==
    Start("insert", [row |-> row, where |-> where],
          DatabaseTable_insert(type, row, where))

TryInsert(row, where) ==
    Start("tryInsert", [row |-> row, where |-> where],
          DatabaseTable_insert(type, row, where))

Upsert(row) ==
    Start("upsert", [row |-> row],
          DatabaseTable_upsert(type, primaryKeyName, row, row, Undefined))

Get(primaryKey) ==
    Start("get", [key |-> primaryKey],
          DatabaseTable_get(type, primaryKeyName, primaryKey))

Delete(primaryKey) ==
    Start("delete", [key |-> primaryKey],
          DatabaseTable_delete(type, primaryKeyName, primaryKey))

Update(primaryKey, data) ==
    Start("update", [key |-> primaryKey, data |-> data],
          DatabaseTable_update(type, primaryKeyName, primaryKey, data))

\* the pool's query succeeds
DriverSucceeds(res) ==
    /\ phase = "pending"
    /\ phase' = "done"
    /\ outcome' = settle(last.op,
                         [failed |-> FALSE, err |-> NoError,
                          value |-> primitiveResolve(type, call.fn, res)])
    /\ last' = last @@ [failed |-> FALSE, driverError |-> NoError,
                        primitiveError |-> NoError]
    /\ UNCHANGED <<type, primaryKeyName, stmt, threw, out, call, ncalls, nops>>

\* the pool's query fails with e
DriverFails(e) ==
    /\ phase = "pending"
    /\ phase' = "done"
    /\ LET err == primitiveReject(type, call.sql, call.values, e)
       IN  /\ outcome' = settle(last.op,
                                [failed |-> TRUE, err |-> err,
                                 value |-> UndefinedValue])
           /\ last' = last @@ [failed |-> TRUE, driverError |-> e,
                               primitiveError |-> err]
    /\ UNCHANGED <<type, primaryKeyName, stmt, threw, out, call, ncalls, nops>>

\* the caller has taken the outcome of the operation; the next one may start
Return ==
    /\ phase = "done"
    /\ phase' = "idle"
    /\ stmt' = EmptyStatement
    /\ threw' = FALSE
    /\ last' = [op |-> "init"]
    /\ out' = NoOut
    /\ call' = NoCall
    /\ outcome' = NoOutcome
    /\ UNCHANGED <<type, primaryKeyName, ncalls, nops>>

Next ==
    \/ /\ CanStart
       /\ \E op \in {"query", "queryOne", "queryExec"} :
            \E n \in 0..MaxInterp : \E t \in Templates(n) : QueryTag(op, t)
    \/ /\ CanStart
       /\ \E n \in 0..MaxInterp : \E t \in Templates(n) : DeleteAll(t)
    \/ \E row \in Rows, where \in Wheres : Insert(row, where)
    \/ \E row \in Rows, where \in Wheres : TryInsert(row, where)
    \/ \E row \in Rows : Upsert(row)
    \/ \E primaryKey \in Keys : Get(primaryKey)
    \/ \E primaryKey \in Keys : Delete(primaryKey)
    \/ \E primaryKey \in Keys, data \in Rows : Update(primaryKey, data)
    \/ \E res \in DriverResults(type) : DriverSucceeds(res)
    \/ \E e \in DriverErrors(type) : DriverFails(e)
    \/ Return

Spec == Init /\ [][Next]_vars

----------------------------------------------------------------------------
(* Properties of the builder and of the resolvers *)

QuoteGlyphs == { "BACKTICK", "\"" }
endsWithQuote(s) == Len(s) > 0 /\ s[Len(s)] \in QuoteGlyphs
beginsWithQuote(s) == Len(s) > 0 /\ s[1] \in QuoteGlyphs

RECURSIVE countChar(_, _)
countChar(s, c) ==
    IF s = <<>> THEN 0
    ELSE (IF Head(s) = c THEN 1 ELSE 0) + countChar(Tail(s), c)

\* the character that starts a placeholder of the dialect
marker(dbtype) == IF dbtype = "pg" THEN "$" ELSE "?"

\* the n-th placeholder of the dialect
placeholder(dbtype, n) ==
    IF dbtype = "pg" THEN <<"$">> \o numberToString(n) ELSE <<"?">>

escapeIdOf(dbtype, id) ==
    IF dbtype = "pg" THEN pg_escapeIdentifier(id) ELSE mysql_escapeId(id)

\* the statement cut after its i-th parameter and the fragment following it
prefixOf(q, i) == [sql |-> SubSeq(q.sql, 1, i + 1), values |-> SubSeq(q.values, 1, i)]

\* the parameters of q at the positions satisfying keep, in order
RECURSIVE selectValues(_, _, _)
selectValues(q, keep(_), i) ==
    IF i > Len(q.values) THEN <<>>
    ELSE (IF keep(i) THEN <<q.values[i]>> ELSE <<>>) \o selectValues(q, keep, i + 1)

PrecededByQuote(q) == { i \in 1..Len(q.values) : endsWithQuote(q.sql[i]) }
FollowedByQuote(q) == { i \in 1..Len(q.values) : beginsWithQuote(q.sql[i + 1]) }

IsResolved == out.type # "none"

(* C1: after construction and after every append and appendRaw, the number
   of fragments equals the number of parameters plus one, also for the
   partially built statement left by an object append that throws *)
C1_FragmentsInv == Len(stmt.sql) = Len(stmt.values) + 1

\* an object append threw in a constructor that had already added parameters
C1_Witness ==
    /\ threw
    /\ last.op = "new"
    /\ Len(stmt.values) > 0

(* C4 as stated: an interpolation whose preceding literal text ends with an
   identifier quote never contributes an entry to the returned parameters *)
C4_PrecedingQuoteNeverBound ==
    IsResolved =>
        Len(out.values) + Cardinality(PrecededByQuote(stmt)) <= Len(stmt.values)

(* C4 amended: an interpolation whose following literal text begins with an
   identifier quote contributes no entry to the returned parameters and no
   placeholder, and the resolver puts the dialect's escaped identifier in
   place of the character before it and of the quote that follows it *)
C4_FollowingQuoteIsIdentifier ==
    IsResolved =>
        /\ out.values =
             selectValues(stmt, LAMBDA i : i \notin FollowedByQuote(stmt), 1)
        /\ countChar(out.sql, marker(out.type)) + Cardinality(FollowedByQuote(stmt))
             <= Len(stmt.values)
        /\ \A i \in FollowedByQuote(stmt) :
             resolveSQL(out.type, prefixOf(stmt, i)).sql =
                 sliceEnd(resolveSQL(out.type, prefixOf(stmt, i - 1)).sql, 1)
                 \o escapeIdOf(out.type, templateString(stmt.values[i]))
                 \o sliceFirst(stmt.sql[i + 1])

\* a resolved statement with an identifier next to a bound parameter
C4_Witness ==
    /\ IsResolved
    /\ FollowedByQuote(stmt) # {}
    /\ Len(out.values) > 0

onlyScalars(values) == \A i \in 1..Len(values) : values[i].k = "scalar"

RECURSIVE joinPlaceholders(_, _, _)
joinPlaceholders(dbtype, strings, i) ==
    IF i > Len(strings) THEN <<>>
    ELSE placeholder(dbtype, i - 1) \o strings[i]
         \o joinPlaceholders(dbtype, strings, i + 1)

\* the literal segments joined with one placeholder per interpolation
expectedText(dbtype, strings) ==
    strings[1] \o joinPlaceholders(dbtype, strings, 2)

scalarsOnlyResult ==
    /\ out.values = [i \in 1..Len(last.values) |-> last.values[i].v]
    /\ out.sql = expectedText(out.type, last.strings)

(* C5 as stated: a statement built from literal segments and scalar
   interpolations resolves to the literals joined with one placeholder per
   parameter, and to the parameters in source order *)
C5_ScalarsAllBound ==
    (IsResolved /\ last.op = "new" /\ onlyScalars(last.values))
        => scalarsOnlyResult

(* C5 amended: the same, for templates in which no literal segment that
   follows an interpolation begins with an identifier quote *)
C5_ScalarsBoundUnlessQuoted ==
    (/\ IsResolved /\ last.op = "new" /\ onlyScalars(last.values)
     /\ \A i \in 2..Len(last.strings) : ~beginsWithQuote(last.strings[i]))
        => scalarsOnlyResult

\* two scalar interpolations resolved by the pg resolver
C5_Witness ==
    /\ IsResolved /\ last.op = "new" /\ onlyScalars(last.values)
    /\ \A i \in 2..Len(last.strings) : ~beginsWithQuote(last.strings[i])
    /\ Len(last.values) = 2
    /\ out.type = "pg"
    /\ last.values[1] # last.values[2]

NestedStatements == { StmtA, StmtB, Statement(<<<<>>>>, <<>>) }

builderOf(q) == [sql |-> q.sql, values |-> q.values, threw |-> FALSE]

(* C6: appending the composition of A then B, as the array [A, B] or as one
   statement built from A followed by B, gives the same fragments and
   parameters as appending A and then appending B *)
C6_AppendComposition ==
    ~threw =>
        /\ \A A \in NestedStatements, B \in NestedStatements :
            LET S == builderOf(stmt)
                seq == append(append(S, A), B)
            IN  /\ append(S, Array(<<A, B>>)) = seq
                /\ append(S, SQL(<<<<>>, <<>>, <<>>>>, <<A, B>>)) = seq
        /\ (/\ last.op = "append" /\ last.value.k = "array"
            /\ Len(last.value.items) = 2 /\ isSQL(last.value.items[1]))
            => builderOf(stmt) =
                 append(append(builderOf(last.before), last.value.items[1]),
                        last.value.items[2])

\* [A, B] has been appended to a statement that already had a parameter
C6_Witness ==
    /\ last.op = "append" /\ last.value.k = "array"
    /\ Len(last.value.items) = 2 /\ isSQL(last.value.items[1])
    /\ Len(last.before.values) > 0
    /\ Len(stmt.values) = Len(last.before.values) + 2

\* the value of a decimal digit character, -1 for any other character
digitValue(c) ==
    CASE c = "0" -> 0 [] c = "1" -> 1 [] c = "2" -> 2 [] c = "3" -> 3
      [] c = "4" -> 4 [] c = "5" -> 5 [] c = "6" -> 6 [] c = "7" -> 7
      [] c = "8" -> 8 [] c = "9" -> 9 [] OTHER -> -1

\* the number written by the digits at the start of s after acc, and acc
\* itself when s starts with no digit (0 for a marker without a number)
RECURSIVE leadingNumber(_, _)
leadingNumber(s, acc) ==
    IF s = <<>> \/ digitValue(Head(s)) < 0 THEN acc
    ELSE leadingNumber(Tail(s), 10 * acc + digitValue(Head(s)))

\* the placeholders of a resolved text from left to right: the number of
\* each $n of pg, and 0 for each ? of mysql
RECURSIVE markersOf(_, _)
markersOf(dbtype, text) ==
    IF text = <<>> THEN <<>>
    ELSE IF Head(text) = marker(dbtype)
         THEN <<IF dbtype = "pg" THEN leadingNumber(Tail(text), 0) ELSE 0>>
              \o markersOf(dbtype, Tail(text))
         ELSE markersOf(dbtype, Tail(text))

\* the sets of positions of the parameters of q
Selections(q) == SUBSET (1..Len(q.values))

(* C11: for every composed statement and both resolvers, the resolved text
   has as many placeholders as the returned parameter list has entries, the
   k-th placeholder stands for the k-th returned parameter (on pg the
   placeholders are $1, $2, ..., $n from left to right, with no gap and no
   repeat), and the returned parameters are parameters of the statement in
   their relative order *)
C11_OnePlaceholderPerParameter ==
    IsResolved =>
        /\ Len(markersOf(out.type, out.sql)) = Len(out.values)
        /\ out.type = "pg" =>
             markersOf(out.type, out.sql) = [k \in 1..Len(out.values) |-> k]
        /\ \E keep \in Selections(stmt) :
             out.values = selectValues(stmt, LAMBDA i : i \in keep, 1)

----------------------------------------------------------------------------
(* Properties of the connection and of the table helpers *)

\* the elements of parts joined with sep
RECURSIVE join(_, _)
join(parts, sep) ==
    IF parts = <<>> THEN <<>>
    ELSE Head(parts) \o (IF Len(parts) > 1 THEN sep ELSE <<>>) \o join(Tail(parts), sep)

identifierList(dbtype, cols) ==
    join([i \in 1..Len(cols) |-> escapeIdOf(dbtype, cols[i])], <<","," ">>)

placeholderList(dbtype, from, n) ==
    join([i \in 1..n |-> placeholder(dbtype, from + i - 1)], <<","," ">>)

assignmentList(dbtype, cols, from) ==
    join([i \in 1..Len(cols) |->
            escapeIdOf(dbtype, cols[i]) \o <<" ","="," ">> \o placeholder(dbtype, from + i - 1)],
         <<","," ">>)

\* INSERT INTO <table> (<cols>) VALUES (<placeholders>)
expectedInsert(dbtype, row) ==
    <<"I","N","S","E","R","T"," ","I","N","T","O"," ">> \o escapeIdOf(dbtype, name) \o <<" ","(">>
    \o identifierList(dbtype, row.cols) \o <<")"," ","V","A","L","U","E","S"," ","(">>
    \o placeholderList(dbtype, 1, Len(row.cols)) \o <<")">>

expectedUpsert(dbtype, pk, row) ==
    expectedInsert(dbtype, row)
    \o (IF dbtype = "pg"
        THEN <<" ","O","N"," ","C","O","N","F","L","I","C","T"," ","(">> \o escapeIdOf(dbtype, templateString(pk))
             \o <<")"," ","D","O"," ","U","P","D","A","T","E"," ","S","E","T"," ">>
        ELSE <<" ","O","N"," ","D","U","P","L","I","C","A","T","E"," ","K","E","Y"," ","U","P","D","A","T","E"," ">>)
    \o assignmentList(dbtype, row.cols, Len(row.cols) + 1)

rowOfScalars(row) ==
    /\ Len(row.cols) > 0
    /\ \A i \in 1..Len(row.vals) : row.vals[i].k = "scalar"

rowValues(row) == [i \in 1..Len(row.vals) |-> row.vals[i].v]

PrimitiveFailed == phase = "done" /\ call.fn # "none" /\ last.failed

NoPrimitiveCall == call = NoCall /\ ncalls = last.ncallsBefore

DuplicateKeyCodes == { <<"E","R","_","D","U","P","_","E","N","T","R","Y">>, <<"2","3","5","0","5">> }

(* C2: tryInsert returns undefined and raises nothing when the execution
   primitive fails with the backend's duplicate-key error, and fails with
   the primitive's error unchanged when it fails with any other error *)
C2_TryInsertDowngradesDuplicate ==
    (last.op = "tryInsert" /\ PrimitiveFailed) =>
        IF last.driverError.code \in DuplicateKeyCodes
        THEN outcome.status = "resolved" /\ outcome.value.k = "undefined"
        ELSE outcome.status = "rejected" /\ outcome.err = last.primitiveError

(* C3: upsert(partialRow) with a non-empty row builds its statement on both
   dialects without a composition error, and the resolved text is the INSERT
   followed by ON CONFLICT (<primary key>) DO UPDATE SET <assignments> on pg
   and by ON DUPLICATE KEY UPDATE <assignments> on mysql, the primary key
   and the columns being identifiers of the text and no bound parameters *)
C3_UpsertBuildsOnBothDialects ==
    (/\ last.op = "upsert" /\ rowOfScalars(last.args.row)
     /\ primaryKeyName # Null) =>
        /\ outcome.status # "thrown"
        /\ startsWith(call.sql, expectedUpsert(type, primaryKeyName, last.args.row))
        /\ call.values = rowValues(last.args.row) \o rowValues(last.args.row)

TagOps == { "query", "queryOne", "queryExec", "deleteAll" }

\* the last fragment of the statement when interpolation i of template t is
\* appended: the literal text that precedes the interpolation
precedingText(t, i) ==
    lastSql(SQLStatement(SubSeq(t.strings, 1, i), SubSeq(t.values, 1, i - 1)))

\* interpolation i of t is an object and everything before it was composed
objectAt(t, i) ==
    /\ t.values[i].k = "object"
    /\ ~SQLStatement(SubSeq(t.strings, 1, i), SubSeq(t.values, 1, i - 1)).threw

compositionFails(t, i) ==
    /\ phase = "done"
    /\ outcome.status = "thrown"
    /\ outcome.err = compositionError(precedingText(t, i))
    /\ NoPrimitiveCall

(* C7 as stated: an object appended where the preceding literal text ends
   neither in "(" nor in "SET " throws the composition error, yields no
   statement, and the execution primitive is not called *)
C7_ObjectOutsideParenOrSETThrows ==
    last.op \in TagOps =>
        \A i \in 1..Len(last.args.values) :
            (/\ objectAt(last.args, i)
             /\ ~endsWith(precedingText(last.args, i), <<"(">>)
             /\ ~endsWith(precedingText(last.args, i), <<"S","E","T"," ">>))
                => compositionFails(last.args, i)

(* C7 amended: an object appended where the preceding literal text ends
   neither in "(" nor, compared without regard to case, in " SET " (SET
   between two spaces) throws the composition error, yields no statement,
   and the execution primitive is not called *)
C7_ObjectOutsideContextThrows ==
    last.op \in TagOps =>
        \A i \in 1..Len(last.args.values) :
            (/\ objectAt(last.args, i)
             /\ ~endsWith(precedingText(last.args, i), <<"(">>)
             /\ ~endsWith(toUpperCase(precedingText(last.args, i)), <<" ","S","E","T"," ">>))
                => compositionFails(last.args, i)

\* a table helper was given an object after text that ends in "SET " only
C7_Witness ==
    /\ last.op = "deleteAll"
    /\ Len(last.args.values) = 1
    /\ objectAt(last.args, 1)
    /\ precedingText(last.args, 1) = <<"O","F","F","S","E","T"," ">>
    /\ outcome.status = "thrown"

methodName(op) ==
    CASE op = "get" -> <<"g","e","t">>
      [] op = "delete" -> <<"d","e","l","e","t","e">>
      [] op = "update" -> <<"u","p","d","a","t","e">>

(* C8: on a table whose primaryKeyName is null, get, delete and update fail
   with the configuration error for every key, on both dialects, and the
   execution primitive has not been called *)
C8_KeyedMethodsNeedPrimaryKey ==
    (last.op \in {"get", "delete", "update"} /\ primaryKeyName = Null) =>
        /\ phase = "done"
        /\ outcome.status = "thrown"
        /\ outcome.err = configurationError(methodName(last.op))
        /\ NoPrimitiveCall

\* delete() failed on a pg table without primary key, after an earlier
\* operation had called the primitive
C8_Witness ==
    /\ last.op = "delete" /\ primaryKeyName = Null /\ type = "pg"
    /\ outcome.status = "thrown"
    /\ ncalls = 1

insertOfScalars ==
    /\ last.op = "insert"
    /\ rowOfScalars(last.args.row)
    /\ last.args.where.k = "undefined"

(* C9 as stated: insert(row) with a non-empty row of scalars and no where
   clause passes INSERT INTO <table> (<cols>) VALUES (<placeholders>), ending
   at the closing parenthesis, and the row's values in key order *)
C9_InsertTextEndsAtParenthesis ==
    insertOfScalars =>
        /\ call.fn = "_queryExec"
        /\ call.sql = expectedInsert(type, last.args.row)
        /\ call.values = rowValues(last.args.row)

(* C9 amended: the same text followed by one space, the separator the
   template puts before the absent where clause *)
C9_InsertTextAndParameters ==
    insertOfScalars =>
        /\ call.fn = "_queryExec"
        /\ call.sql = expectedInsert(type, last.args.row) \o <<" ">>
        /\ call.values = rowValues(last.args.row)

\* insert({name: "x", age: 5}) has called the primitive of a pg database
C9_Witness ==
    /\ insertOfScalars
    /\ type = "pg"
    /\ phase = "pending"
    /\ call.values = <<Str(<<"x">>), Num(5)>>

carriesCode(err, code) ==
    \/ err.hasCode /\ err.code = code
    \/ includes(err.message, code)

(* C10: when the execution primitive fails, query, queryOne and queryExec
   fail, make no second call, and the error they deliver carries the
   resolved SQL text, the resolved parameters and the driver's error code *)
C10_FailureCarriesContext ==
    (last.op \in {"query", "queryOne", "queryExec"} /\ PrimitiveFailed) =>
        /\ outcome.status = "rejected"
        /\ ncalls = last.ncallsBefore + 1
        /\ includes(outcome.err.message, call.sql)
        /\ includes(outcome.err.message, valuesToString(call.values))
        /\ carriesCode(outcome.err, last.driverError.code)

====
